---- MODULE Spec2Model ----
(***************************************************************************)
(* HttpSpacePrimitives: the HTTP binding of the space-primitives           *)
(* interface.  One client instance talks to one server.  Every operation   *)
(* is followed from the call, through the request that fetch sends and the *)
(* response that comes back, to the value returned or the error thrown.    *)
(*                                                                         *)
(* Optional JavaScript values (undefined, null) are sequences of length 0  *)
(* or 1: <<>> is the absent value, <<v>> the value v.  Strings whose       *)
(* characters matter are sequences of one-character strings; file content  *)
(* is a sequence of bytes (0..255), text a sequence of code points.        *)
(***************************************************************************)
EXTENDS Integers, Sequences, FiniteSets, TLC

VARIABLES
    cfg,         \* constructor parameters: url, expectedSpacePath, user, password
    hasLocation, \* typeof location !== "undefined" in the hosting runtime
    store,       \* the server's files: url -> <<>> (no file) or <<bytes>>
    lastWrite,   \* the writeFile call whose body the server stored last, <<>> if none
    pc,          \* position of the call in flight
    call,        \* the operation called and its arguments
    request,     \* <<>> or <<the request handed to fetch>>
    response,    \* <<>> or <<the response fetch resolved with>>
    result,      \* what the caller got: a returned value or a thrown error
    events       \* the side effects of the call, in order

vars == <<cfg, hasLocation, store, lastWrite, pc, call, request, response, result, events>>

\* Longest file content (bytes or code points) a caller writes.
MaxLen == 2

None == <<>>
Some(v) == <<v>>

\* JavaScript truthiness of an optional string (undefined and "" are falsy),
\* of an optional character sequence, and of an optional number (undefined
\* and 0 are falsy).
TruthyString(o) == o # None /\ o[1] # ""
TruthyChars(o) == o # None /\ o[1] # <<>>
TruthyNumber(o) == o # None /\ o[1] # 0

\* ------------------------------------------------------------------ strings

RECURSIVE SeqsUpTo(_, _)
SeqsUpTo(S, n) ==
    IF n = 0 THEN {<<>>}
    ELSE LET shorter == SeqsUpTo(S, n - 1)
         IN  shorter \cup {Append(s, x) : s \in shorter, x \in S}

Digits == <<"0", "1", "2", "3", "4", "5", "6", "7", "8", "9">>

\* "" + n for a non-negative integer n.
RECURSIVE NumberToString(_)
NumberToString(n) ==
    IF n < 10 THEN <<Digits[n + 1]>>
    ELSE Append(NumberToString(n \div 10), Digits[(n % 10) + 1])

IsDigit(c) == \E i \in 1..10 : Digits[i] = c
DigitValue(c) == (CHOOSE i \in 1..10 : Digits[i] = c) - 1

RECURSIVE DecimalValue(_)
DecimalValue(s) ==
    IF s = <<>> THEN 0
    ELSE 10 * DecimalValue(SubSeq(s, 1, Len(s) - 1)) + DigitValue(s[Len(s)])

NaN == -1

\* The unary plus of JavaScript on a header value: null and "" give 0, a
\* decimal numeral its value, anything else NaN.
ToNumber(o) ==
    IF o = None \/ o[1] = <<>> THEN 0
    ELSE IF \A i \in 1..Len(o[1]) : IsDigit(o[1][i]) THEN DecimalValue(o[1])
    ELSE NaN

\* encodeURI on the characters file names are made of: a space is escaped,
\* letters, digits, "." and "/" are kept.
EncodeURIChar(c) == IF c = " " THEN <<"%", "2", "0">> ELSE <<c>>

RECURSIVE encodeURI(_)
encodeURI(s) ==
    IF s = <<>> THEN <<>> ELSE EncodeURIChar(Head(s)) \o encodeURI(Tail(s))

\* mime.getType(name): the type of the extension, null without a known one.
mimeGetType(name) ==
    IF Len(name) > 4 /\ SubSeq(name, Len(name) - 3, Len(name)) = <<".", "p", "n", "g">>
    THEN Some("image/png")
    ELSE None

\* ------------------------------------------------------------------ UTF-8

Utf8EncodePoint(cp) ==
    IF cp < 128 THEN <<cp>>
    ELSE IF cp < 2048 THEN <<192 + (cp \div 64), 128 + (cp % 64)>>
    ELSE <<224 + (cp \div 4096), 128 + ((cp \div 64) % 64), 128 + (cp % 64)>>

\* The bytes fetch sends for a string body.
RECURSIVE Utf8Encode(_)
Utf8Encode(s) ==
    IF s = <<>> THEN <<>> ELSE Utf8EncodePoint(Head(s)) \o Utf8Encode(Tail(s))

IsContinuation(b) == b \in 128..191

RECURSIVE Utf8Decode(_)
Utf8Decode(b) ==
    IF b = <<>> THEN <<>>
    ELSE LET h == Head(b)
             n == Len(b)
         IN  IF h < 128 THEN <<h>> \o Utf8Decode(Tail(b))
             ELSE IF h \in 192..223 /\ n >= 2 /\ IsContinuation(b[2])
             THEN <<(h - 192) * 64 + (b[2] - 128)>> \o Utf8Decode(SubSeq(b, 3, n))
             ELSE IF h \in 224..239 /\ n >= 3 /\ IsContinuation(b[2]) /\ IsContinuation(b[3])
             THEN <<(h - 224) * 4096 + (b[2] - 128) * 64 + (b[3] - 128)>>
                      \o Utf8Decode(SubSeq(b, 4, n))
             ELSE <<65533>> \o Utf8Decode(Tail(b))

\* Response.text(): UTF-8 decode, a leading byte order mark dropped.
ResponseText(b) ==
    LET s == Utf8Decode(b)
    IN  IF s # <<>> /\ s[1] = 65279 THEN Tail(s) ELSE s

\* ------------------------------------------------------------------ base64

\* A base64 string is a sequence of alphabet indices 0..63, with Pad for "=".
Pad == 64

RECURSIVE Base64Encode(_)
Base64Encode(b) ==
    IF b = <<>> THEN <<>>
    ELSE IF Len(b) = 1
    THEN <<b[1] \div 4, (b[1] % 4) * 16, Pad, Pad>>
    ELSE IF Len(b) = 2
    THEN <<b[1] \div 4, (b[1] % 4) * 16 + (b[2] \div 16), (b[2] % 16) * 4, Pad>>
    ELSE <<b[1] \div 4, (b[1] % 4) * 16 + (b[2] \div 16),
           (b[2] % 16) * 4 + (b[3] \div 64), b[3] % 64>>
             \o Base64Encode(SubSeq(b, 4, Len(b)))

RECURSIVE Base64Decode(_)
Base64Decode(s) ==
    IF Len(s) < 4 THEN <<>>
    ELSE LET b1 == s[1] * 4 + (s[2] \div 16)
             b2 == (s[2] % 16) * 16 + (s[3] \div 4)
             b3 == (s[3] % 4) * 64 + s[4]
             rest == Base64Decode(SubSeq(s, 5, Len(s)))
         IN  IF s[3] = Pad THEN <<b1>>
             ELSE IF s[4] = Pad THEN <<b1, b2>>
             ELSE <<b1, b2, b3>> \o rest

\* ------------------------------------------------------------------ FileData

ArrayBufferData(b) == [kind |-> "ArrayBuffer", bytes |-> b, text |-> <<>>, mime |-> "", payload |-> <<>>]
Uint8ArrayData(b)  == [kind |-> "Uint8Array", bytes |-> b, text |-> <<>>, mime |-> "", payload |-> <<>>]
TextData(s)        == [kind |-> "text", bytes |-> <<>>, text |-> s, mime |-> "", payload |-> <<>>]
\* The string "data:" + mime + ";base64," + payload.
DataUrl(m, p)      == [kind |-> "dataurl", bytes |-> <<>>, text |-> <<>>, mime |-> m, payload |-> p]

base64EncodedDataUrl(mimeType, buffer) == DataUrl(mimeType, Base64Encode(buffer))
base64DecodeDataUrl(dataUrl) == Uint8ArrayData(Base64Decode(dataUrl.payload))

\* The bytes a piece of FileData stands for.
ContentBytes(d) ==
    CASE d.kind = "text"    -> Utf8Encode(d.text)
      [] d.kind = "dataurl" -> Base64Decode(d.payload)
      [] OTHER              -> d.bytes

\* ------------------------------------------------------------------ inputs

ByteValues == {0, 255}
CodePoints == {65, 233}
Contents == SeqsUpTo(ByteValues, MaxLen)
Texts == SeqsUpTo(CodePoints, MaxLen)

\* "a.png" and "n b": one name with a known extension, one that encodeURI
\* changes.
Names == {<<"a", ".", "p", "n", "g">>, <<"n", " ", "b">>}
Encodings == {"arraybuffer", "utf8", "dataurl"}

\* The (encoding, data) pairs a caller passes to writeFile.
WriteInputs ==
    {<<"arraybuffer", ArrayBufferData(b)>> : b \in Contents}
      \cup {<<"arraybuffer", Uint8ArrayData(b)>> : b \in Contents}
      \cup {<<"utf8", TextData(s)>> : s \in Texts}
      \cup {<<"dataurl", base64EncodedDataUrl(m, b)>> :
                m \in {"image/png", "text/plain"}, b \in Contents}

LastModifieds == {None, Some(0), Some(5)}

Configs ==
    [url : {<<"h">>},
     expectedSpacePath : {None, Some(""), Some("/space")},
     user : {None, Some(<<117>>)},
     password : {None, Some(<<112>>)}]

\* ------------------------------------------------------------------ records

NoData == [kind |-> "none", bytes |-> <<>>, text |-> <<>>, mime |-> "", payload |-> <<>>]
NoCall == [op |-> "none", name |-> <<>>, encoding |-> "", data |-> NoData, lastModified |-> None]
NoResult == [kind |-> "none", error |-> <<>>, list |-> None, data |-> None, meta |-> None]

Throw(message) == [NoResult EXCEPT !.kind = "throw", !.error = message]
Return == [NoResult EXCEPT !.kind = "return"]

NoRequestHeaders == [contentType |-> None, xLastModified |-> None, cookie |-> None]

ResponseHeaderNames ==
    {"X-Space-Path", "X-Content-Length", "Content-type", "X-Last-Modified", "X-Permission"}
NoResponseHeaders == [h \in ResponseHeaderNames |-> None]

Req == request[1]
Res == response[1]

Count(ev, e) == Cardinality({i \in 1..Len(ev) : ev[i] = e})

\* ------------------------------------------------------------------ client

FileUrl(name) == cfg.url \o <<"/">> \o encodeURI(name)

\* authenticatedFetch, up to the call of fetch: the auth cookie is set when
\* both a user and a password are configured.
AuthHeaders(headers) ==
    IF TruthyChars(cfg.user) /\ TruthyChars(cfg.password)
    THEN [headers EXCEPT !.cookie =
              Some([prefix |-> "auth=",
                    b64 |-> Base64Encode(cfg.user[1] \o <<58>> \o cfg.password[1])])]
    ELSE headers

\* fetch wrapped in a retry that sends the request once more.
fetchRetried(ev) == Append(Append(ev, "fetch"), "fetch")

fetch(ev) == Append(ev, "fetch")

authenticatedFetch(method, url, headers, body) ==
    /\ request' = Some([method |-> method, url |-> url,
                        headers |-> AuthHeaders(headers), body |-> body])
    /\ events' = fetch(events)
    /\ pc' = "fetch"

\* Every error status taken for an authentication failure.
AuthFailedOnAnyError(res) == res.status >= 400 \/ res.redirected

\* authenticatedFetch after fetch resolved: 401 or a followed redirect is an
\* authentication failure.
AuthFailed(res) == res.status = 401 \/ res.redirected

\* The reload without the typeof location guard.
ReloadUnguarded(ev) == Append(ev, "reload")

ReloadOnAuthFailure(ev) == IF hasLocation THEN Append(ev, "reload") ELSE ev

Unauthorized ==
    /\ events' = ReloadOnAuthFailure(events)
    /\ result' = Throw(<<"Unauthorized">>)
    /\ pc' = "done"

\* The size read with parseInt, which gives NaN for an absent header.
responseToMetaParseInt(name, res) ==
    [name |-> name,
     size |-> IF res.headers["X-Content-Length"] = None THEN NaN
              ELSE ToNumber(res.headers["X-Content-Length"]),
     contentType |-> res.headers["Content-type"],
     lastModified |-> ToNumber(IF TruthyChars(res.headers["X-Last-Modified"])
                               THEN res.headers["X-Last-Modified"]
                               ELSE Some(<<"0">>)),
     perm |-> IF TruthyString(res.headers["X-Permission"])
              THEN res.headers["X-Permission"][1]
              ELSE "rw"]

responseToMeta(name, res) ==
    [name |-> name,
     size |-> ToNumber(res.headers["X-Content-Length"]),
     contentType |-> res.headers["Content-type"],
     lastModified |-> ToNumber(IF TruthyChars(res.headers["X-Last-Modified"])
                               THEN res.headers["X-Last-Modified"]
                               ELSE Some(<<"0">>)),
     perm |-> IF TruthyString(res.headers["X-Permission"])
              THEN res.headers["X-Permission"][1]
              ELSE "rw"]

\* Response.json() on the bodies a list request is answered with: "[]" parses
\* to the empty list, anything else is a syntax error.
JsonOk(body) == body = <<91, 93>>

\* The comparison of the space path inverted: === for !==.
SpaceMismatchInverted(res) ==
    /\ TruthyString(cfg.expectedSpacePath)
    /\ res.headers["X-Space-Path"] = cfg.expectedSpacePath

SpaceMismatch(res) ==
    /\ TruthyString(cfg.expectedSpacePath)
    /\ res.headers["X-Space-Path"] # cfg.expectedSpacePath

JsonResult(res) ==
    IF JsonOk(res.body) THEN [Return EXCEPT !.list = Some(<<>>)]
    ELSE Throw(<<"SyntaxError">>)

CallFetchFileList ==
    /\ pc = "idle"
    /\ call' = [NoCall EXCEPT !.op = "fetchFileList"]
    /\ authenticatedFetch("GET", cfg.url, NoRequestHeaders, None)
    /\ UNCHANGED <<cfg, hasLocation, store, lastWrite, response, result>>

ResumeFetchFileList ==
    /\ pc = "resume"
    /\ call.op = "fetchFileList"
    /\ IF AuthFailed(Res) THEN Unauthorized
       ELSE IF SpaceMismatch(Res)
       THEN /\ events' = Append(events, "flush")
            /\ pc' = "flush"
            /\ UNCHANGED result
       ELSE /\ result' = JsonResult(Res)
            /\ pc' = "done"
            /\ UNCHANGED events
    /\ UNCHANGED <<cfg, hasLocation, store, lastWrite, call, request, response>>

\* flushCachesAndUnregisterServiceWorker resolved: alert, location.reload(),
\* then the list is returned.  Without a location global the reload throws.
FlushDone ==
    /\ pc = "flush"
    /\ IF hasLocation
       THEN /\ events' = events \o <<"alert", "reload">>
            /\ result' = JsonResult(Res)
       ELSE /\ events' = Append(events, "alert")
            /\ result' = Throw(<<"ReferenceError">>)
    /\ pc' = "done"
    /\ UNCHANGED <<cfg, hasLocation, store, lastWrite, call, request, response>>

\* readFile without its 404 check.
ReadNotFoundUnchecked(res) == FALSE

ReadNotFound(res) == res.status = 404

ReadData(name, encoding, res) ==
    CASE encoding = "arraybuffer" -> ArrayBufferData(res.body)
      [] encoding = "dataurl" ->
             base64EncodedDataUrl(
                 IF TruthyString(mimeGetType(name)) THEN mimeGetType(name)[1]
                 ELSE "application/octet-stream",
                 res.body)
      [] encoding = "utf8" -> TextData(ResponseText(res.body))

CallReadFile ==
    /\ pc = "idle"
    /\ \E name \in Names, encoding \in Encodings :
          /\ call' = [NoCall EXCEPT !.op = "readFile", !.name = name, !.encoding = encoding]
          /\ authenticatedFetch("GET", FileUrl(name), NoRequestHeaders, None)
    /\ UNCHANGED <<cfg, hasLocation, store, lastWrite, response, result>>

ResumeReadFile ==
    /\ pc = "resume"
    /\ call.op = "readFile"
    /\ IF AuthFailed(Res) THEN Unauthorized
       ELSE /\ result' = IF ReadNotFound(Res) THEN Throw(<<"Page not found">>)
                         ELSE [Return EXCEPT
                                  !.data = Some(ReadData(call.name, call.encoding, Res)),
                                  !.meta = Some(responseToMeta(call.name, Res))]
            /\ pc' = "done"
            /\ UNCHANGED events
    /\ UNCHANGED <<cfg, hasLocation, store, lastWrite, call, request, response>>

\* The body writeFile hands to fetch.  For "dataurl" the decoded bytes are
\* assigned to data, and body keeps its initial null.
WriteBody(encoding, data) ==
    CASE encoding = "arraybuffer" ->
             Some(IF data.kind = "ArrayBuffer" THEN Uint8ArrayData(data.bytes) ELSE data)
      [] encoding = "utf8" -> Some(data)
      [] encoding = "dataurl" -> None

WriteHeaders(lastModified) ==
    [NoRequestHeaders EXCEPT
        !.contentType = Some("application/octet-stream"),
        !.xLastModified = IF TruthyNumber(lastModified)
                          THEN Some(NumberToString(lastModified[1]))
                          ELSE None]

CallWriteFile ==
    /\ pc = "idle"
    /\ \E name \in Names, in \in WriteInputs, lastModified \in LastModifieds :
          /\ call' = [op |-> "writeFile", name |-> name, encoding |-> in[1],
                      data |-> in[2], lastModified |-> lastModified]
          /\ authenticatedFetch("PUT", FileUrl(name), WriteHeaders(lastModified),
                                WriteBody(in[1], in[2]))
    /\ UNCHANGED <<cfg, hasLocation, store, lastWrite, response, result>>

ResumeWriteFile ==
    /\ pc = "resume"
    /\ call.op = "writeFile"
    /\ IF AuthFailed(Res) THEN Unauthorized
       ELSE /\ result' = [Return EXCEPT !.meta = Some(responseToMeta(call.name, Res))]
            /\ pc' = "done"
            /\ UNCHANGED events
    /\ UNCHANGED <<cfg, hasLocation, store, lastWrite, call, request, response>>

\* Response.ok in place of the comparison with 200.
DeleteOkAny2xx(res) == res.status \in 200..299

DeleteOk(res) == res.status = 200

CallDeleteFile ==
    /\ pc = "idle"
    /\ \E name \in Names :
          /\ call' = [NoCall EXCEPT !.op = "deleteFile", !.name = name]
          /\ authenticatedFetch("DELETE", FileUrl(name), NoRequestHeaders, None)
    /\ UNCHANGED <<cfg, hasLocation, store, lastWrite, response, result>>

ResumeDeleteFile ==
    /\ pc = "resume"
    /\ call.op = "deleteFile"
    /\ IF AuthFailed(Res) THEN Unauthorized
       ELSE /\ result' = IF DeleteOk(Res) THEN Return
                         ELSE Throw(<<"Failed to delete file: ", Res.statusText>>)
            /\ pc' = "done"
            /\ UNCHANGED events
    /\ UNCHANGED <<cfg, hasLocation, store, lastWrite, call, request, response>>

MetaNotFound(res) == res.status = 404

CallGetFileMeta ==
    /\ pc = "idle"
    /\ \E name \in Names :
          /\ call' = [NoCall EXCEPT !.op = "getFileMeta", !.name = name]
          /\ authenticatedFetch("OPTIONS", FileUrl(name), NoRequestHeaders, None)
    /\ UNCHANGED <<cfg, hasLocation, store, lastWrite, response, result>>

ResumeGetFileMeta ==
    /\ pc = "resume"
    /\ call.op = "getFileMeta"
    /\ IF AuthFailed(Res) THEN Unauthorized
       ELSE /\ result' = IF MetaNotFound(Res) THEN Throw(<<"File not found">>)
                         ELSE [Return EXCEPT !.meta = Some(responseToMeta(call.name, Res))]
            /\ pc' = "done"
            /\ UNCHANGED events
    /\ UNCHANGED <<cfg, hasLocation, store, lastWrite, call, request, response>>

\* proxySyscall forwarded to the server instead of refused.
proxySyscallForwarded ==
    /\ pc = "idle"
    /\ call' = [NoCall EXCEPT !.op = "proxySyscall"]
    /\ authenticatedFetch("POST", cfg.url, NoRequestHeaders, None)
    /\ UNCHANGED <<cfg, hasLocation, store, lastWrite, response, result>>

proxySyscall ==
    /\ pc = "idle"
    /\ call' = [NoCall EXCEPT !.op = "proxySyscall"]
    /\ result' = Throw(<<"Not supported">>)
    /\ pc' = "done"
    /\ UNCHANGED <<cfg, hasLocation, store, lastWrite, request, response, events>>

invokeFunction ==
    /\ pc = "idle"
    /\ call' = [NoCall EXCEPT !.op = "invokeFunction"]
    /\ result' = Throw(<<"Not supported">>)
    /\ pc' = "done"
    /\ UNCHANGED <<cfg, hasLocation, store, lastWrite, request, response, events>>

\* The caller has its answer; the instance keeps nothing of the call.
Finish ==
    /\ pc = "done"
    /\ pc' = "idle"
    /\ call' = NoCall
    /\ request' = None
    /\ response' = None
    /\ result' = NoResult
    /\ events' = <<>>
    /\ lastWrite' = IF call.op = "writeFile" THEN lastWrite ELSE None
    /\ UNCHANGED <<cfg, hasLocation, store>>

\* ------------------------------------------------------------------ server

Statuses == {200, 204, 401, 403, 404, 500}

ReasonPhrase(status) ==
    CASE status = 200 -> "OK"
      [] status = 204 -> "No Content"
      [] status = 401 -> "Unauthorized"
      [] status = 403 -> "Forbidden"
      [] status = 404 -> "Not Found"
      [] OTHER        -> "Internal Server Error"

Response(status, redirected, headers, body) ==
    [status |-> status, statusText |-> ReasonPhrase(status), redirected |-> redirected,
     headers |-> headers, body |-> body]

\* The metadata headers of a response: every combination of absent, empty,
\* numeric and non-numeric values.
NumericHeaderValues == {None, Some(<<>>), Some(<<"1", "2">>), Some(<<"x">>)}
MetaHeaders ==
    {[NoResponseHeaders EXCEPT !["X-Content-Length"] = cl, !["Content-type"] = ct,
                               !["X-Last-Modified"] = lm, !["X-Permission"] = pm] :
        cl \in NumericHeaderValues, ct \in {None, Some("text/plain")},
        lm \in NumericHeaderValues, pm \in {None, Some(""), Some("ro"), Some("rw")}}

\* No metadata header at all, or all four of them.
PlainHeaders ==
    {NoResponseHeaders,
     [NoResponseHeaders EXCEPT !["X-Content-Length"] = Some(<<"7">>),
                               !["Content-type"] = Some("text/plain"),
                               !["X-Last-Modified"] = Some(<<"5">>),
                               !["X-Permission"] = Some("ro")]}

\* What any server, proxy or login page in between may answer to a request.
ResponsesTo(req) ==
    IF req.method = "GET" /\ req.url = cfg.url
    THEN {Response(st, rd, [NoResponseHeaders EXCEPT !["X-Space-Path"] = sp], b) :
              st \in Statuses, rd \in BOOLEAN,
              sp \in {None, Some("/space"), Some("/other")},
              b \in {<<91, 93>>, <<60>>}}
    ELSE IF req.method = "GET"
    THEN {Response(st, rd, h, b) :
              st \in Statuses, rd \in BOOLEAN, h \in PlainHeaders,
              b \in {<<>>, <<65>>, <<195, 169>>, <<255>>}}
    ELSE IF req.method = "OPTIONS"
    THEN {Response(st, rd, h, <<>>) : st \in Statuses, rd \in BOOLEAN, h \in MetaHeaders}
    ELSE IF req.method = "PUT"
    THEN {Response(st, rd, h, <<>>) : st \in Statuses, rd \in BOOLEAN, h \in PlainHeaders}
    ELSE {Response(st, rd, NoResponseHeaders, <<>>) : st \in Statuses, rd \in BOOLEAN}

ServerRespond ==
    /\ pc = "fetch"
    /\ \E r \in ResponsesTo(Req) : response' = Some(r)
    /\ pc' = "resume"
    /\ UNCHANGED <<cfg, hasLocation, store, lastWrite, call, request, result, events>>

\* The bytes that arrive at the server for a request body: a string is sent
\* UTF-8 encoded, a byte array as it is, null as an empty body.
WireBytes(body) == IF body = None THEN <<>> ELSE ContentBytes(body[1])

StoredHeaders(bytes, req) ==
    [NoResponseHeaders EXCEPT
        !["X-Content-Length"] = Some(NumberToString(Len(bytes))),
        !["Content-type"] = Some("application/octet-stream"),
        !["X-Last-Modified"] = IF req.headers.xLastModified # None
                               THEN req.headers.xLastModified ELSE Some(<<"9">>),
        !["X-Permission"] = Some("rw")]

\* A server that stores the body of every PUT under its URL and serves it
\* back on GET, answering 404 for a URL it holds no file for.
ServerStore ==
    /\ pc = "fetch"
    /\ Req.method \in {"PUT", "GET"}
    /\ IF Req.method = "PUT"
       THEN /\ store' = [store EXCEPT ![Req.url] = Some(WireBytes(Req.body))]
            /\ lastWrite' = Some(call)
            /\ response' = Some(Response(200, FALSE,
                                         StoredHeaders(WireBytes(Req.body), Req), <<>>))
       ELSE /\ response' =
                 IF store[Req.url] = None
                 THEN Some(Response(404, FALSE, NoResponseHeaders, <<>>))
                 ELSE Some(Response(200, FALSE,
                                    StoredHeaders(store[Req.url][1], Req), store[Req.url][1]))
            /\ UNCHANGED <<store, lastWrite>>
    /\ pc' = "resume"
    /\ UNCHANGED <<cfg, hasLocation, call, request, result, events>>

\* ------------------------------------------------------------------ specifications

Init ==
    /\ cfg \in Configs
    /\ hasLocation \in BOOLEAN
    /\ store = [u \in {cfg.url \o <<"/">> \o encodeURI(n) : n \in Names} |-> None]
    /\ lastWrite = None
    /\ pc = "idle"
    /\ call = NoCall
    /\ request = None
    /\ response = None
    /\ result = NoResult
    /\ events = <<>>

Next ==
    \/ CallFetchFileList \/ ResumeFetchFileList \/ FlushDone
    \/ CallReadFile \/ ResumeReadFile
    \/ CallWriteFile \/ ResumeWriteFile
    \/ CallDeleteFile \/ ResumeDeleteFile
    \/ CallGetFileMeta \/ ResumeGetFileMeta
    \/ proxySyscall \/ invokeFunction
    \/ ServerRespond
    \/ Finish

\* The client against any server.
Spec == Init /\ [][Next]_vars

\* The client, in a browser and without credentials, writing to and reading
\* from the storing server.
InitStore ==
    /\ Init
    /\ cfg.expectedSpacePath = None /\ cfg.user = None /\ cfg.password = None
    /\ hasLocation

NextStore ==
    \/ CallWriteFile \/ ResumeWriteFile
    \/ CallReadFile \/ ResumeReadFile
    \/ ServerStore
    \/ Finish

SpecStore == InitStore /\ [][NextStore]_vars

\* ------------------------------------------------------------------ properties

FileOps == {"fetchFileList", "readFile", "writeFile", "deleteFile", "getFileMeta"}
Done == pc = "done"
Answered(op) == Done /\ call.op = op /\ response # None
PassedAuth == Res.status # 401 /\ ~Res.redirected

\* C1: writeFile(name, E, content) followed immediately by readFile(name, E)
\* against the storing server returns the content written: the same bytes for
\* arraybuffer, the same text for utf8, and for dataurl a data URL that
\* decodes to the same bytes.
C1_RoundTrip ==
    (/\ Answered("readFile")
     /\ lastWrite # None
     /\ lastWrite[1].name = call.name
     /\ lastWrite[1].encoding = call.encoding)
    => /\ result.kind = "return"
       /\ result.data # None
       /\ CASE call.encoding = "arraybuffer" ->
                   result.data[1].bytes = lastWrite[1].data.bytes
            [] call.encoding = "utf8" ->
                   result.data[1].text = lastWrite[1].data.text
            [] call.encoding = "dataurl" ->
                   base64DecodeDataUrl(result.data[1]) = base64DecodeDataUrl(lastWrite[1].data)

\* C2 as stated: whatever the operation, a 401 response makes the call throw
\* the authentication error, hands no data or metadata to the caller, and
\* reloads the client exactly once.
C2_AuthFailureReloadsOnce ==
    (Done /\ call.op \in FileOps /\ Res.status = 401)
    => /\ result = Throw(<<"Unauthorized">>)
       /\ Count(events, "reload") = 1

\* C2 as amended: whatever the operation, a 401 response makes the call throw
\* the authentication error and hands no data or metadata to the caller; the
\* client is reloaded exactly once where a location global exists, and not at
\* all where there is none.
C2_AuthFailureReloadsOnceWithLocation ==
    (Done /\ call.op \in FileOps /\ Res.status = 401)
    => /\ result = Throw(<<"Unauthorized">>)
       /\ Count(events, "reload") = (IF hasLocation THEN 1 ELSE 0)

C2_Witness ==
    /\ Answered("writeFile")
    /\ Res.status = 401
    /\ hasLocation
    /\ result = Throw(<<"Unauthorized">>)
    /\ events = <<"fetch", "reload">>

\* An expected space path is configured when it is a non-empty string.
ListAnswered ==
    /\ call.op = "fetchFileList"
    /\ response # None
    /\ TruthyString(cfg.expectedSpacePath)

\* A list handed to the caller after a mismatch comes after the cache flush
\* and the reload, in that order.
FlushThenReloadBeforeList ==
    (ListAnswered /\ Res.headers["X-Space-Path"] # cfg.expectedSpacePath /\ result.list # None)
    => events = <<"fetch", "flush", "alert", "reload">>

C4_DeleteSucceedsOnlyOn200 ==
    (Answered("deleteFile") /\ PassedAuth)
    => /\ (result.kind = "return") <=> (Res.status = 200)
       /\ (Res.status # 200)
          => result = Throw(<<"Failed to delete file: ", Res.statusText>>)

C4_Witness ==
    /\ Answered("deleteFile")
    /\ PassedAuth
    /\ Res.status = 204
    /\ result = Throw(<<"Failed to delete file: ", "No Content">>)

\* C5 as stated: on a 404 response readFile throws "Page not found" and
\* getFileMeta throws "File not found", and the caller gets neither data nor
\* metadata.
C5_NotFoundOn404 ==
    /\ (Answered("readFile") /\ Res.status = 404) => result = Throw(<<"Page not found">>)
    /\ (Answered("getFileMeta") /\ Res.status = 404) => result = Throw(<<"File not found">>)

\* C5 as amended: on a 404 response that is not redirected readFile throws
\* "Page not found" and getFileMeta throws "File not found", and the caller
\* gets neither data nor metadata.
C5_NotFoundOn404NotRedirected ==
    /\ (Answered("readFile") /\ Res.status = 404 /\ ~Res.redirected)
       => result = Throw(<<"Page not found">>)
    /\ (Answered("getFileMeta") /\ Res.status = 404 /\ ~Res.redirected)
       => result = Throw(<<"File not found">>)

C5_Witness ==
    /\ Answered("readFile")
    /\ Res.status = 404
    /\ ~Res.redirected
    /\ result = Throw(<<"Page not found">>)

\* C6: readFile and writeFile take every response that is not redirected and
\* whose status is neither 401 nor, for readFile, 404 as a success: nothing is
\* thrown, and the data and metadata returned are those of that response,
\* whatever the status (403, 500, and 404 for writeFile).
C6_OtherStatusesPassThrough ==
    /\ (Answered("readFile") /\ PassedAuth /\ Res.status # 404)
       => result = [Return EXCEPT
                       !.data = Some(ReadData(call.name, call.encoding, Res)),
                       !.meta = Some(responseToMeta(call.name, Res))]
    /\ (Answered("writeFile") /\ PassedAuth)
       => result = [Return EXCEPT !.meta = Some(responseToMeta(call.name, Res))]

C6_Witness ==
    /\ Answered("readFile")
    /\ PassedAuth
    /\ Res.status = 500
    /\ result.kind = "return"
    /\ result.data # None

\* C7: proxySyscall and invokeFunction throw "Not supported" at once, under
\* every configuration, having sent no request and reloaded nothing.
C7_PlugCallsNotSupported ==
    (call.op \in {"proxySyscall", "invokeFunction"})
    => /\ Done
       /\ result = Throw(<<"Not supported">>)
       /\ request = None
       /\ events = <<>>

C7_Witness ==
    /\ Done
    /\ call.op = "proxySyscall"
    /\ cfg.user # None /\ cfg.password # None
    /\ result = Throw(<<"Not supported">>)

\* C8: the PUT request of writeFile carries X-Last-Modified equal to the
\* timestamp the caller passed, whatever its value (0 included), carries no
\* such header when none was passed, and always has the content type
\* application/octet-stream.
C8_LastModifiedHeaderSent ==
    (call.op = "writeFile" /\ request # None)
    => /\ Req.headers.xLastModified =
              (IF call.lastModified = None THEN None
               ELSE Some(NumberToString(call.lastModified[1])))
       /\ Req.headers.contentType = Some("application/octet-stream")

\* C9: whatever headers a response has, the metadata built from it exists,
\* bears the requested name, has size 0 without X-Content-Length, lastModified
\* 0 without X-Last-Modified and perm "rw" without X-Permission.
C9_MetaDefaults ==
    (/\ Done
     /\ call.op \in {"readFile", "writeFile", "getFileMeta"}
     /\ PassedAuth
     /\ call.op = "writeFile" \/ Res.status # 404)
    => /\ result.meta # None
       /\ result.meta[1].name = call.name
       /\ (Res.headers["X-Content-Length"] = None) => (result.meta[1].size = 0)
       /\ (Res.headers["X-Last-Modified"] = None) => (result.meta[1].lastModified = 0)
       /\ (Res.headers["X-Permission"] = None) => (result.meta[1].perm = "rw")

C9_Witness ==
    /\ Answered("getFileMeta")
    /\ Res.headers = [NoResponseHeaders EXCEPT !["Content-type"] = Some("text/plain")]
    /\ result.meta = Some([name |-> call.name, size |-> 0,
                           contentType |-> Some("text/plain"),
                           lastModified |-> 0, perm |-> "rw"])

\* C10: a call of fetchFileList, readFile, writeFile, deleteFile or
\* getFileMeta has sent exactly one request, from the moment it is sent to the
\* outcome, whatever the outcome is.
C10_OneRequestPerCall ==
    (call.op \in FileOps) => Count(events, "fetch") = 1

C10_Witness ==
    /\ Answered("deleteFile")
    /\ Res.status = 500
    /\ result.kind = "throw"
    /\ Count(events, "fetch") = 1
====
